---- MODULE Spec2Model ----
(***************************************************************************)
(* roarsvg: translation of lyon path events into usvg path commands        *)
(* (lyon_path_to_usvg), and the LyonWriter that collects primitives and    *)
(* computes the size and view box of the tree on write (prepare).          *)
(*                                                                         *)
(* Three specifications share the variables:                               *)
(*   SpecEvents  lyon_path_to_usvg stepped over an arbitrary event stream  *)
(*   SpecPath    lyon_path_to_usvg stepped over the events of a lyon Path  *)
(*               made with begin / line_to / ... / end                     *)
(*   Spec        the public operations of LyonWriter                       *)
(***************************************************************************)
EXTENDS Integers, Sequences, FiniteSets, TLC

VARIABLES
    events,          \* the events of path.iter() consumed so far
    upath_builder,   \* the PathBuilder of lyon_path_to_usvg
    current,         \* Option<Point>: <<>> is None, <<p>> is Some(p)
    path_data,       \* the returned Option<PathData>
    tpc,             \* "iter" inside the for loop, "done" after finish()
    nodes,           \* LyonWriter.nodes
    global_transform,\* LyonWriter.global_transform (Option)
    fontdb,          \* LyonWriter.fontdb: the type parameter and its value
    consumed,        \* write(self) has taken the writer
    last_op,         \* the last public operation called, with its input
    last_result,     \* what that operation returned
    tree,            \* the Tree prepare built (Option)
    pushed           \* the primitives of the pushes that returned Ok, in call order

tvars == <<events, upath_builder, current, path_data, tpc>>
wvars == <<nodes, global_transform, fontdb, consumed, last_op, last_result, tree, pushed>>
vars == <<events, upath_builder, current, path_data, tpc,
          nodes, global_transform, fontdb, consumed, last_op, last_result, tree, pushed>>

None == <<>>
Some(x) == <<x>>

(***************************************************************************)
(* Bounds of the model.                                                    *)
(***************************************************************************)
MaxEvents == 3
MaxPathEvents == 6
MaxNodes == 3

(***************************************************************************)
(* Points and events (lyon_path::Event).                                   *)
(***************************************************************************)
Points == {<<0, 0>>, <<1, 1>>}
Ctrl1 == <<2, 1>>
Ctrl2 == <<5, 1>>

Begin(at) == [type |-> "Begin", at |-> at]
Line(from, to) == [type |-> "Line", from |-> from, to |-> to]
Quadratic(from, ctrl, to) == [type |-> "Quadratic", from |-> from, ctrl |-> ctrl, to |-> to]
Cubic(from, ctrl1, ctrl2, to) ==
    [type |-> "Cubic", from |-> from, ctrl1 |-> ctrl1, ctrl2 |-> ctrl2, to |-> to]
End(last, first, close) == [type |-> "End", last |-> last, first |-> first, close |-> close]

(***************************************************************************)
(* tiny_skia_path::PathBuilder, as lyon_path_to_usvg drives it.            *)
(* verbs and points are its two vectors; a Move, Line verb owns one point, *)
(* a Quad two, a Cubic three, a Close none.                                *)
(***************************************************************************)
PathBuilder_new ==
    [verbs |-> <<>>, points |-> <<>>, last_move_to_index |-> 0, move_to_required |-> TRUE]

LastVerb(b) == IF b.verbs = <<>> THEN "" ELSE b.verbs[Len(b.verbs)]

move_to(b, p) ==
    IF LastVerb(b) = "Move"
    THEN [b EXCEPT !.points[Len(b.points)] = p]
    ELSE [b EXCEPT !.last_move_to_index = Len(b.points),
                   !.move_to_required = FALSE,
                   !.verbs = Append(b.verbs, "Move"),
                   !.points = Append(b.points, p)]

inject_move_to_if_needed(b) ==
    IF b.move_to_required
    THEN IF b.last_move_to_index < Len(b.points)
         THEN move_to(b, b.points[b.last_move_to_index + 1])
         ELSE move_to(b, <<0, 0>>)
    ELSE b

line_to(b, p) ==
    LET i == inject_move_to_if_needed(b)
    IN [i EXCEPT !.verbs = Append(i.verbs, "Line"), !.points = Append(i.points, p)]

quad_to(b, c, p) ==
    LET i == inject_move_to_if_needed(b)
    IN [i EXCEPT !.verbs = Append(i.verbs, "Quad"), !.points = i.points \o <<c, p>>]

cubic_to(b, c1, c2, p) ==
    LET i == inject_move_to_if_needed(b)
    IN [i EXCEPT !.verbs = Append(i.verbs, "Cubic"), !.points = i.points \o <<c1, c2, p>>]

close(b) ==
    LET c == IF b.verbs # <<>> /\ LastVerb(b) # "Close"
             THEN [b EXCEPT !.verbs = Append(b.verbs, "Close")]
             ELSE b
    IN [c EXCEPT !.move_to_required = TRUE]

\* finish(): None for no verb or a lone Move, else the path (all points here are finite).
finish(b) ==
    IF Len(b.verbs) <= 1 THEN None
    ELSE Some([verbs |-> b.verbs, points |-> b.points])

(***************************************************************************)
(* The body of the for loop of lyon_path_to_usvg: one match arm per event. *)
(***************************************************************************)
\* Mutant of Repair: the discontinuity is never repaired.
Repair_NoMove(b, cur, from) == b

Repair(b, cur, from) ==
    IF cur # None /\ from # cur[1] THEN move_to(b, from) ELSE b

\* Mutant of ArmBegin: the new subpath is tracked but no MoveTo is emitted.
ArmBegin_NoMove(st, ev) ==
    [b |-> st.b, current |-> Some(ev.at)]

ArmBegin(st, ev) ==
    [b |-> move_to(st.b, ev.at), current |-> Some(ev.at)]

ArmLine(st, ev) ==
    [b |-> line_to(Repair(st.b, st.current, ev.from), ev.to), current |-> Some(ev.to)]

ArmQuadratic(st, ev) ==
    [b |-> quad_to(Repair(st.b, st.current, ev.from), ev.ctrl, ev.to),
     current |-> Some(ev.to)]

ArmCubic(st, ev) ==
    [b |-> cubic_to(Repair(st.b, st.current, ev.from), ev.ctrl1, ev.ctrl2, ev.to),
     current |-> Some(ev.to)]

\* Mutant of ArmEnd: the current point becomes first, where the pen is after
\* the closing line.
ArmEnd_CurrentFirst(st, ev) ==
    LET r == Repair(st.b, st.current, ev.last)
    IN [b |-> IF ev.close THEN close(line_to(r, ev.first)) ELSE r,
        current |-> Some(ev.first)]

\* Mutant of ArmEnd: a closing End emits Close without the line back to first.
ArmEnd_NoClosingLine(st, ev) ==
    LET r == Repair(st.b, st.current, ev.last)
    IN [b |-> IF ev.close THEN close(r) ELSE r,
        current |-> Some(ev.last)]

ArmEnd(st, ev) ==
    LET r == Repair(st.b, st.current, ev.last)
    IN [b |-> IF ev.close THEN close(line_to(r, ev.first)) ELSE r,
        current |-> Some(ev.last)]

TranslateEvent(st, ev) ==
    CASE ev.type = "Begin" -> ArmBegin(st, ev)
      [] ev.type = "Line" -> ArmLine(st, ev)
      [] ev.type = "Quadratic" -> ArmQuadratic(st, ev)
      [] ev.type = "Cubic" -> ArmCubic(st, ev)
      [] ev.type = "End" -> ArmEnd(st, ev)

RECURSIVE TranslateAll(_, _)
TranslateAll(st, evs) ==
    IF evs = <<>> THEN st
    ELSE TranslateAll(TranslateEvent(st, Head(evs)), Tail(evs))

lyon_path_to_usvg(evs) ==
    finish(TranslateAll([b |-> PathBuilder_new, current |-> None], evs).b)

(***************************************************************************)
(* The commands of a built path, as Path::segments() reads verbs/points.   *)
(***************************************************************************)
RECURSIVE Commands(_, _)
Commands(verbs, points) ==
    IF verbs = <<>> THEN <<>>
    ELSE LET v == Head(verbs)
         IN CASE v = "Move" ->
                    <<[cmd |-> "MoveTo", pts |-> <<points[1]>>]>>
                        \o Commands(Tail(verbs), SubSeq(points, 2, Len(points)))
              [] v = "Line" ->
                    <<[cmd |-> "LineTo", pts |-> <<points[1]>>]>>
                        \o Commands(Tail(verbs), SubSeq(points, 2, Len(points)))
              [] v = "Quad" ->
                    <<[cmd |-> "QuadTo", pts |-> <<points[1], points[2]>>]>>
                        \o Commands(Tail(verbs), SubSeq(points, 3, Len(points)))
              [] v = "Cubic" ->
                    <<[cmd |-> "CubicTo", pts |-> <<points[1], points[2], points[3]>>]>>
                        \o Commands(Tail(verbs), SubSeq(points, 4, Len(points)))
              [] v = "Close" ->
                    <<[cmd |-> "Close", pts |-> <<>>]>>
                        \o Commands(Tail(verbs), points)

MoveTo(p) == [cmd |-> "MoveTo", pts |-> <<p>>]
LineTo(p) == [cmd |-> "LineTo", pts |-> <<p>>]
QuadTo(c, p) == [cmd |-> "QuadTo", pts |-> <<c, p>>]
CubicTo(c1, c2, p) == [cmd |-> "CubicTo", pts |-> <<c1, c2, p>>]
ClosePath == [cmd |-> "Close", pts |-> <<>>]

(***************************************************************************)
(* f32 values.  Coordinates are integers; an integer up to 2^24 in size is *)
(* an f32, one between 2^24 and 2^25 rounds to the nearest even integer    *)
(* (ties to the even mantissa: a multiple of 4).  Inf and NegInf stand for *)
(* the two infinities and NaN for the f32 NaN; a finite value is below     *)
(* 2^30 in size, and the model never computes a finite one beyond 2^25.    *)
(***************************************************************************)
Pow24 == 2^24
Inf == 2^30
NegInf == -(2^30)
NaN == 2^30 + 1
IsFinite(v) == v # Inf /\ v # NegInf /\ v # NaN

RoundMagnitude(v) ==
    IF v <= Pow24 THEN v
    ELSE IF v % 2 = 0 THEN v
    ELSE IF (v + 1) % 4 = 0 THEN v + 1 ELSE v - 1

F32(v) == IF v >= 0 THEN RoundMagnitude(v) ELSE -RoundMagnitude(-v)

\* -v
FNeg(v) == IF v = NaN THEN NaN ELSE -v

\* a + b: NaN is absorbing, (+inf) + (-inf) is NaN, an infinity absorbs a
\* finite value.
FAdd(a, b) ==
    IF a = NaN \/ b = NaN THEN NaN
    ELSE IF ~IsFinite(a) THEN (IF b = FNeg(a) THEN NaN ELSE a)
    ELSE IF ~IsFinite(b) THEN b
    ELSE F32(a + b)

\* a * b: NaN is absorbing, inf * 0 is NaN, otherwise an infinity of the
\* product's sign.
FMul(a, b) ==
    IF a = NaN \/ b = NaN THEN NaN
    ELSE IF ~IsFinite(a) \/ ~IsFinite(b)
    THEN (IF a = 0 \/ b = 0 THEN NaN
          ELSE IF (a > 0) = (b > 0) THEN Inf ELSE NegInf)
    ELSE F32(a * b)

\* a - b
FSub(a, b) == FAdd(a, FNeg(b))

\* a > b: false when either side is NaN.
FGt(a, b) == a # NaN /\ b # NaN /\ a > b

\* a.min(b), a.max(b): the other operand when one is NaN.
FMin(a, b) == IF a = NaN THEN b ELSE IF b = NaN THEN a ELSE IF b < a THEN b ELSE a
FMax(a, b) == IF a = NaN THEN b ELSE IF b = NaN THEN a ELSE IF b > a THEN b ELSE a

(***************************************************************************)
(* SvgTransform (sx kx tx / ky sy ty) and Transform::map_point.            *)
(***************************************************************************)
Transform(sx, ky, kx, sy, tx, ty) ==
    [sx |-> sx, ky |-> ky, kx |-> kx, sy |-> sy, tx |-> tx, ty |-> ty]
Identity == Transform(1, 0, 0, 1, 0, 0)
Translate(tx, ty) == Transform(1, 0, 0, 1, tx, ty)
Rotate90 == Transform(0, 1, -1, 0, 0, 0)
RotateScale45 == Transform(1, 1, -1, 1, 0, 0)
Transforms == {Translate(2, 3), Translate(Pow24, 0), Rotate90, RotateScale45}

\* Mutant of MapPoint: only the translation is applied.
MapPoint_TranslateOnly(ts, p) ==
    <<FAdd(p[1], ts.tx), FAdd(p[2], ts.ty)>>

\* Mutant of MapPoint: the translation is dropped.
MapPoint_LinearOnly(ts, p) ==
    <<FAdd(FMul(p[1], ts.sx), FMul(p[2], ts.kx)),
      FAdd(FMul(p[1], ts.ky), FMul(p[2], ts.sy))>>

MapPoint(ts, p) ==
    <<FAdd(FAdd(FMul(p[1], ts.sx), FMul(p[2], ts.kx)), ts.tx),
      FAdd(FAdd(FMul(p[1], ts.ky), FMul(p[2], ts.sy)), ts.ty)>>

unwrap_or_default(opt) == IF opt = None THEN Identity ELSE opt[1]

(***************************************************************************)
(* Nodes.  A node is its NodeKind, its path data (a Path made by push) and *)
(* the Option<Rect> that node.calculate_bbox() returns for it: a Rect is   *)
(* <<left, top, right, bottom>>.                                           *)
(***************************************************************************)
Node(kind, data, bbox) == [kind |-> kind, data |-> data, bbox |-> bbox]
UnitBox == <<0, 0, 1, 1>>
FlatBox == <<1, 1, 1, 3>>
PathBoxes == {Some(UnitBox), Some(FlatBox)}
GroupBoxes == {None, Some(UnitBox)}

Corners(bbox) ==
    << <<bbox[1], bbox[2]>>, <<bbox[3], bbox[2]>>, <<bbox[1], bbox[4]>>, <<bbox[3], bbox[4]>> >>

\* filter_map(calculate_bbox), flat_map(corners), map(map_point)
RECURSIVE CornerPoints(_, _)
CornerPoints(ns, ts) ==
    IF ns = <<>> THEN <<>>
    ELSE (IF Head(ns).bbox = None THEN <<>>
          ELSE [i \in 1..4 |-> MapPoint(ts, Corners(Head(ns).bbox[1])[i])])
         \o CornerPoints(Tail(ns), ts)

\* fold((INFINITY, NEG_INFINITY, INFINITY, NEG_INFINITY), min / max)
RECURSIVE FoldBounds(_, _)
FoldBounds(acc, pts) ==
    IF pts = <<>> THEN acc
    ELSE FoldBounds([min_x |-> FMin(acc.min_x, Head(pts)[1]),
                     max_x |-> FMax(acc.max_x, Head(pts)[1]),
                     min_y |-> FMin(acc.min_y, Head(pts)[2]),
                     max_y |-> FMax(acc.max_y, Head(pts)[2])], Tail(pts))

ComputeBounds(ns, gt) ==
    FoldBounds([min_x |-> Inf, max_x |-> NegInf, min_y |-> Inf, max_y |-> NegInf],
               CornerPoints(ns, unwrap_or_default(gt)))

FALLBACK == 256

\* Mutant of Width: the width is measured from the origin.
Width_FromOrigin(bs) == IF bs.max_x > 0 THEN bs.max_x ELSE FALLBACK

Width(bs) == IF FGt(FSub(bs.max_x, bs.min_x), 0) THEN FSub(bs.max_x, bs.min_x) ELSE FALLBACK
Height(bs) == IF FGt(FSub(bs.max_y, bs.min_y), 0) THEN FSub(bs.max_y, bs.min_y) ELSE FALLBACK

\* Size::from_wh: both finite and > 0.
Size_from_wh(w, h) ==
    IF FGt(w, 0) /\ FGt(h, 0) /\ IsFinite(w) /\ IsFinite(h) THEN Some(<<w, h>>) ELSE None

\* NonZeroRect::from_ltrb: all finite, width > 0 and height > 0.
NonZeroRect_from_ltrb(l, t, r, b) ==
    IF /\ IsFinite(l) /\ IsFinite(t) /\ IsFinite(r) /\ IsFinite(b)
       /\ FGt(FSub(r, l), 0) /\ FGt(FSub(b, t), 0)
    THEN Some(<<l, t, r, b>>) ELSE None

Ok == [tag |-> "Ok", bounds |-> <<>>]
Err(tag) == [tag |-> tag, bounds |-> <<>>]

\* Mutant of WrongBoundingBox: the error reports the box rebuilt from the
\* fallback-adjusted width and height.
WrongBoundingBox_Adjusted(bs) ==
    [tag |-> "WrongBoundingBox",
     bounds |-> <<bs.min_x, FAdd(bs.min_x, Width(bs)), bs.min_y, FAdd(bs.min_y, Height(bs))>>]

WrongBoundingBox(bs) ==
    [tag |-> "WrongBoundingBox", bounds |-> <<bs.min_x, bs.max_x, bs.min_y, bs.max_y>>]

\* Mutant of RootOf: the commented-out sort is live, groups go last.
RootOf_GroupsLast(ns, gt) ==
    [kind |-> "Group", transform |-> Identity,
     children |-> <<[kind |-> "Group", transform |-> unwrap_or_default(gt),
                     children |-> SelectSeq(ns, LAMBDA n : n.kind # "Group")
                                     \o SelectSeq(ns, LAMBDA n : n.kind = "Group")]>>]

\* root_node with the one group_node that carries the global transform.
RootOf(ns, gt) ==
    [kind |-> "Group", transform |-> Identity,
     children |-> <<[kind |-> "Group", transform |-> unwrap_or_default(gt),
                     children |-> ns]>>]

\* prepare: [result, tree]
Prepare(ns, gt) ==
    LET bs == ComputeBounds(ns, gt)
        size == Size_from_wh(Width(bs), Height(bs))
        rect == NonZeroRect_from_ltrb(bs.min_x, bs.min_y, bs.max_x, bs.max_y)
    IN IF size = None \/ rect = None
       THEN [result |-> WrongBoundingBox(bs), tree |-> None]
       ELSE [result |-> Ok,
             tree |-> Some([size |-> size[1], view_box |-> rect[1],
                            root |-> RootOf(ns, gt), text_converted |-> FALSE])]

(***************************************************************************)
(* lyon_path_to_usvg as a machine: one step per event of path.iter(), then *)
(* finish().  The writer's variables do not move.                          *)
(***************************************************************************)
Consume(ev) ==
    LET st == TranslateEvent([b |-> upath_builder, current |-> current], ev)
    IN /\ tpc = "iter"
       /\ events' = Append(events, ev)
       /\ upath_builder' = st.b
       /\ current' = st.current
       /\ UNCHANGED <<path_data, tpc>>
       /\ UNCHANGED wvars

Finish ==
    /\ tpc = "iter"
    /\ tpc' = "done"
    /\ path_data' = finish(upath_builder)
    /\ UNCHANGED <<events, upath_builder, current>>
    /\ UNCHANGED wvars

\* SpecEvents: any event may follow any other.
EvBegin == \E at \in Points : Len(events) < MaxEvents /\ Consume(Begin(at))
EvLine == \E from \in Points, to \in Points :
    Len(events) < MaxEvents /\ Consume(Line(from, to))
EvQuadratic == \E from \in Points, to \in Points :
    Len(events) < MaxEvents /\ Consume(Quadratic(from, Ctrl1, to))
EvCubic == \E from \in Points, to \in Points :
    Len(events) < MaxEvents /\ Consume(Cubic(from, Ctrl1, Ctrl2, to))
EvEnd == \E last \in Points, first \in Points, cl \in BOOLEAN :
    Len(events) < MaxEvents /\ Consume(End(last, first, cl))
EvFinish == Finish

\* SpecPath: the events lyon's Path yields for begin / line_to /
\* quadratic_bezier_to / cubic_bezier_to / end: every from is the previous
\* end point, End carries the last point and the point of its Begin.
LastEvent(evs) == evs[Len(evs)]
InSubpath(evs) == evs # <<>> /\ LastEvent(evs).type # "End"
EndPoint(ev) ==
    CASE ev.type = "Begin" -> ev.at
      [] ev.type = "End" -> ev.last
      [] OTHER -> ev.to
RECURSIVE FirstPoint(_)
FirstPoint(evs) ==
    IF LastEvent(evs).type = "Begin" THEN LastEvent(evs).at
    ELSE FirstPoint(SubSeq(evs, 1, Len(evs) - 1))

PathBegin == \E at \in Points :
    /\ Len(events) < MaxPathEvents /\ ~InSubpath(events)
    /\ Consume(Begin(at))
PathLineTo == \E to \in Points :
    /\ Len(events) < MaxPathEvents /\ InSubpath(events)
    /\ Consume(Line(EndPoint(LastEvent(events)), to))
PathQuadraticTo == \E to \in Points :
    /\ Len(events) < MaxPathEvents /\ InSubpath(events)
    /\ Consume(Quadratic(EndPoint(LastEvent(events)), Ctrl1, to))
PathCubicTo == \E to \in Points :
    /\ Len(events) < MaxPathEvents /\ InSubpath(events)
    /\ Consume(Cubic(EndPoint(LastEvent(events)), Ctrl1, Ctrl2, to))
PathEnd == \E cl \in BOOLEAN :
    /\ Len(events) < MaxPathEvents /\ InSubpath(events)
    /\ Consume(End(EndPoint(LastEvent(events)), FirstPoint(events), cl))
PathFinish == ~InSubpath(events) /\ Finish

TInit ==
    /\ events = <<>>
    /\ upath_builder = PathBuilder_new
    /\ current = None
    /\ path_data = None
    /\ tpc = "iter"

WInit ==
    /\ nodes = <<>>
    /\ global_transform = None
    /\ fontdb = [param |-> "NoText", value |-> None]
    /\ consumed = FALSE
    /\ last_op = [op |-> "new"]
    /\ last_result = Ok
    /\ tree = None
    /\ pushed = <<>>

Init == TInit /\ WInit

NextEvents == EvBegin \/ EvLine \/ EvQuadratic \/ EvCubic \/ EvEnd \/ EvFinish
SpecEvents == Init /\ [][NextEvents]_vars

NextPath == PathBegin \/ PathLineTo \/ PathQuadraticTo \/ PathCubicTo \/ PathEnd \/ PathFinish
SpecPath == Init /\ [][NextPath]_vars

(***************************************************************************)
(* The public operations of LyonWriter.  The translator's variables do not *)
(* move.  An operation that takes self by value and returns a writer       *)
(* (with_transform, add_fonts...) is a step of the one writer.             *)
(***************************************************************************)
Op(name, arg) == [op |-> name, arg |-> arg]

\* The lyon paths handed to push: no event, an empty subpath, a closed
\* subpath of a line and a cubic.
SamplePaths ==
    { <<>>,
      <<Begin(<<0, 0>>), End(<<0, 0>>, <<0, 0>>, FALSE)>>,
      <<Begin(<<0, 0>>), Line(<<0, 0>>, <<1, 1>>),
        Cubic(<<1, 1>>, Ctrl1, Ctrl2, <<0, 0>>), End(<<0, 0>>, <<0, 0>>, TRUE)>> }

\* lyon_path_to_svg_with_attributes: None when lyon_path_to_usvg is None.
lyon_path_to_svg_with_attributes(path, bbox) ==
    LET data == lyon_path_to_usvg(path)
    IN IF data = None THEN None ELSE Some(Node("Path", data, bbox))

\* Mutant of PushResult: the node is pushed before the translation is looked at.
PushResult_PushFirst(ns, path, bbox) ==
    LET op == lyon_path_to_svg_with_attributes(path, bbox)
    IN IF op = None
       THEN [result |-> Err("SvgFailure"), nodes |-> Append(ns, Node("Path", None, bbox))]
       ELSE [result |-> Ok, nodes |-> Append(ns, op[1])]

\* push: ok_or(SvgFailure)? returns before self.nodes.push runs.
PushResult(ns, path, bbox) ==
    LET op == lyon_path_to_svg_with_attributes(path, bbox)
    IN IF op = None
       THEN [result |-> Err("SvgFailure"), nodes |-> ns]
       ELSE [result |-> Ok, nodes |-> Append(ns, op[1])]

Logged(r, ns) == IF r.result.tag = "Ok" THEN Append(pushed, r.nodes[Len(r.nodes)]) ELSE pushed

Push ==
    \E path \in SamplePaths, bbox \in PathBoxes :
        LET r == PushResult(nodes, path, bbox)
        IN /\ ~consumed /\ Len(nodes) < MaxNodes
           /\ nodes' = r.nodes
           /\ last_op' = Op("push", path)
           /\ last_result' = r.result
           /\ pushed' = Logged(r, nodes)
           /\ UNCHANGED <<global_transform, fontdb, consumed, tree>>
           /\ UNCHANGED tvars

\* The NodeKind a caller hands to push_node: a Text made with create_text_node.
CallerNodes == {Node("Text", None, None)}

PushNode ==
    \E node \in CallerNodes :
        /\ ~consumed /\ Len(nodes) < MaxNodes
        /\ nodes' = Append(nodes, node)
        /\ last_op' = Op("push_node", <<>>)
        /\ last_result' = Ok
        /\ pushed' = Append(pushed, node)
        /\ UNCHANGED <<global_transform, fontdb, consumed, tree>>
        /\ UNCHANGED tvars

\* create_png_node: NonZeroRect::from_xywh(tx, ty, width, height), else
\* WrongBoundingBox around (tx, ty).
\* The f32 n/2 for an odd n below 2^24 is exact and is not an integer: it is
\* written as its decimal, "-0.5", "2.5".
HalfDecimal(n) ==
    IF n < 0 THEN "-" \o ToString((-n) \div 2) \o ".5"
    ELSE ToString(n \div 2) \o ".5"

\* c + d / 2. in f32: half an infinity or a NaN is itself; for a finite d,
\* d / 2. is exact, and the sum is exact below 2^23 and is rounded to the
\* nearest representable value, ties to even, above.
HalfOffset(c, d) ==
    IF ~IsFinite(c) \/ ~IsFinite(d) THEN FAdd(c, d)
    ELSE IF d % 2 = 0 THEN FAdd(c, d \div 2)
    ELSE LET n == 2 * c + d
             k == n \div 2
         IN IF -Pow24 < n /\ n < Pow24 THEN HalfDecimal(n)
            ELSE F32(IF k % 2 = 0 THEN k ELSE k + 1)

create_png_node(tx, ty, width, height) ==
    LET rect == NonZeroRect_from_ltrb(tx, ty, FAdd(tx, width), FAdd(ty, height))
    IN IF rect = None
       THEN [result |-> [tag |-> "WrongBoundingBox",
                         bounds |-> <<HalfOffset(tx, FNeg(width)), HalfOffset(tx, width),
                                      HalfOffset(ty, FNeg(height)), HalfOffset(ty, height)>>],
             node |-> None]
       ELSE [result |-> Ok, node |-> Some(Node("Image", None, rect))]

PushPng ==
    \E width \in {0, 2} :
        LET r == create_png_node(1, 0, width, 2)
        IN /\ ~consumed /\ Len(nodes) < MaxNodes
           /\ nodes' = IF r.node = None THEN nodes ELSE Append(nodes, r.node[1])
           /\ last_op' = Op("push_png", <<>>)
           /\ last_result' = r.result
           /\ pushed' = IF r.node = None THEN pushed ELSE Append(pushed, r.node[1])
           /\ UNCHANGED <<global_transform, fontdb, consumed, tree>>
           /\ UNCHANGED tvars

PushGroup ==
    \E bbox \in GroupBoxes :
        /\ ~consumed /\ Len(nodes) < MaxNodes
        /\ nodes' = Append(nodes, Node("Group", None, bbox))
        /\ last_op' = Op("push_group", <<>>)
        /\ last_result' = Ok
        /\ pushed' = Append(pushed, Node("Group", None, bbox))
        /\ UNCHANGED <<global_transform, fontdb, consumed, tree>>
        /\ UNCHANGED tvars

\* push_text and the converting write exist for LyonWriter<Option<T>> only.
HasTextImpl == fontdb.param = "Option"

\* create_text_node: FontFailure unless font_size is a NonZeroPositiveF32.
create_text_node(font_size) ==
    IF IsFinite(font_size) /\ FGt(font_size, 0)
    THEN [result |-> Ok, node |-> Some(Node("Text", None, None))]
    ELSE [result |-> Err("FontFailure"), node |-> None]

PushText ==
    \E font_size \in {0, 12} :
        LET r == create_text_node(font_size)
        IN /\ ~consumed /\ Len(nodes) < MaxNodes
           /\ HasTextImpl
           /\ nodes' = IF r.node = None THEN nodes ELSE Append(nodes, r.node[1])
           /\ last_op' = Op("push_text", <<>>)
           /\ last_result' = r.result
           /\ pushed' = IF r.node = None THEN pushed ELSE Append(pushed, r.node[1])
           /\ UNCHANGED <<global_transform, fontdb, consumed, tree>>
           /\ UNCHANGED tvars

\* Mutant of WithTransform: the writer is rebuilt from new() with the
\* transform set, and the primitives are lost.
WithTransform_DropsNodes ==
    \E trans \in Transforms :
        /\ ~consumed
        /\ global_transform' = Some(trans)
        /\ nodes' = <<>>
        /\ pushed' = <<>>
        /\ last_op' = Op("with_transform", <<trans>>)
        /\ last_result' = Ok
        /\ UNCHANGED <<fontdb, consumed, tree>>
        /\ UNCHANGED tvars

WithTransform ==
    \E trans \in Transforms :
        /\ ~consumed
        /\ global_transform' = Some(trans)
        /\ last_op' = Op("with_transform", <<trans>>)
        /\ last_result' = Ok
        /\ UNCHANGED <<nodes, fontdb, consumed, tree, pushed>>
        /\ UNCHANGED tvars

\* Mutant of Attach: the writer is retyped but its font source is left absent.
Attach_Absent(name) ==
    /\ ~consumed
    /\ fontdb' = [param |-> "Option", value |-> None]
    /\ last_op' = Op(name, <<>>)
    /\ last_result' = Ok
    /\ UNCHANGED <<nodes, global_transform, consumed, tree, pushed>>
    /\ UNCHANGED tvars

Attach(name) ==
    /\ ~consumed
    /\ fontdb' = [param |-> "Option", value |-> Some("Database")]
    /\ last_op' = Op(name, <<>>)
    /\ last_result' = Ok
    /\ UNCHANGED <<nodes, global_transform, consumed, tree, pushed>>
    /\ UNCHANGED tvars

AddFonts == Attach("add_fonts")
AddFontsDir == Attach("add_fonts_dir")
\* impl LyonWriter<NoText>
AddFontsSourceNoText == fontdb.param = "NoText" /\ Attach("add_fonts_source")
\* impl LyonWriter<Option<T>>
AddFontsSourceOption == fontdb.param = "Option" /\ Attach("add_fonts_source")

\* The Group of glyph paths that Text::convert builds for a Text node.
TextGroup == Node("Group", Some("TextPaths"), None)

\* The positions of the Text nodes of ns.
TextIndices(ns) == {i \in 1..Len(ns) : ns[i].kind = "Text"}

\* The children of group_node after convert_text: each Text node gets the
\* Group Text::convert returns inserted after it (converts[i]; none when
\* the text yields no paths with the fonts given) and is then detached; the
\* other nodes stay where they are.
ConvertChildren(ns, converts) ==
    LET F[i \in 0..Len(ns)] ==
            IF i = 0 THEN <<>>
            ELSE F[i - 1] \o (IF ns[i].kind # "Text" THEN <<ns[i]>>
                              ELSE IF converts[i] THEN <<TextGroup>> ELSE <<>>)
    IN F[Len(ns)]

\* tree.convert_text(&fontdb) on the tree of prepare.
convert_text(tr, converts) ==
    [tr EXCEPT !.root.children[1].children = ConvertChildren(@, converts),
               !.text_converted = TRUE]

\* prepare()? has run; to_file(tree, file_path)? either writes the file or
\* fails with IoWrite, the variant that wraps an I/O error.
Written(prep, io_ok) ==
    /\ consumed' = TRUE
    /\ last_op' = Op("write", <<>>)
    /\ last_result' = IF prep.tree = None THEN prep.result
                      ELSE IF io_ok THEN Ok ELSE Err("IoWrite")
    /\ tree' = prep.tree
    /\ UNCHANGED <<nodes, global_transform, pushed>>
    /\ UNCHANGED tvars

\* impl LyonWriter<NoText>: prepare, to_file.
WriteNoText ==
    \E io_ok \in BOOLEAN :
        /\ ~consumed /\ fontdb.param = "NoText"
        /\ Written(Prepare(nodes, global_transform), io_ok)
        /\ UNCHANGED fontdb

\* impl LyonWriter<Option<T>>: fontdb.take().ok_or(NoFonts)?, prepare,
\* convert_text, to_file.
WriteText ==
    \E io_ok \in BOOLEAN, converts \in [TextIndices(nodes) -> BOOLEAN] :
        /\ ~consumed /\ HasTextImpl
        /\ fontdb' = [fontdb EXCEPT !.value = None]
        /\ IF fontdb.value = None
           THEN /\ consumed' = TRUE
                /\ last_op' = Op("write", <<>>)
                /\ last_result' = Err("NoFonts")
                /\ UNCHANGED <<nodes, global_transform, tree, pushed>>
                /\ UNCHANGED tvars
           ELSE LET prep == Prepare(nodes, global_transform)
                IN Written([prep EXCEPT !.tree =
                               IF @ = None THEN None
                               ELSE Some(convert_text(@[1], converts))], io_ok)

Next ==
    \/ Push \/ PushNode \/ PushPng \/ PushGroup \/ PushText
    \/ WithTransform
    \/ AddFonts \/ AddFontsDir \/ AddFontsSourceNoText \/ AddFontsSourceOption
    \/ WriteNoText \/ WriteText

Spec == Init /\ [][Next]_vars

(***************************************************************************)
(* What the claims read off a path.                                        *)
(***************************************************************************)
IsSegment(ev) == ev.type \in {"Line", "Quadratic", "Cubic"}

SegmentCommand(ev) ==
    CASE ev.type = "Line" -> LineTo(ev.to)
      [] ev.type = "Quadratic" -> QuadTo(ev.ctrl, ev.to)
      [] ev.type = "Cubic" -> CubicTo(ev.ctrl1, ev.ctrl2, ev.to)

\* One subpath: Begin, segments, End.
IsGroup(evs) ==
    /\ Len(evs) >= 2
    /\ evs[1].type = "Begin"
    /\ evs[Len(evs)].type = "End"
    /\ \A i \in 2..(Len(evs) - 1) : IsSegment(evs[i])

Contiguous(evs) ==
    /\ \A i \in 2..(Len(evs) - 1) : evs[i].from = EndPoint(evs[i - 1])
    /\ evs[Len(evs)].last = EndPoint(evs[Len(evs) - 1])

\* The run the specification gives for one subpath.
GroupRun(evs) ==
    <<MoveTo(evs[1].at)>>
        \o [i \in 1..(Len(evs) - 2) |-> SegmentCommand(evs[i + 1])]
        \o (IF evs[Len(evs)].close
            THEN <<LineTo(evs[Len(evs)].first), ClosePath>>
            ELSE <<>>)

OutCommands == Commands(path_data[1].verbs, path_data[1].points)
BuilderCommands(b) == Commands(b.verbs, b.points)

\* C1: a path of one subpath Begin(at), n >= 1 contiguous segments,
\* End(close = true) translates, and its commands are MoveTo(at), one command
\* per segment in event order, LineTo(first), Close: n + 3 commands.
C1_ClosedSubpath ==
    (tpc = "done" /\ IsGroup(events) /\ Len(events) >= 3 /\ Contiguous(events)
        /\ events[Len(events)].close)
    => /\ path_data # None
       /\ Len(OutCommands) = (Len(events) - 2) + 3
       /\ OutCommands = GroupRun(events)

C1_Witness ==
    /\ tpc = "done"
    /\ Len(events) = 4
    /\ events[1].type = "Begin" /\ events[2].type = "Line" /\ events[3].type = "Line"
    /\ events[4].type = "End" /\ events[4].close
    /\ path_data # None
    /\ Len(path_data[1].verbs) = 5

(***************************************************************************)
(* A step of the loop that consumes a Line whose from differs from the     *)
(* tracked current point (the end of the previous event).                  *)
(***************************************************************************)
LineGapStep ==
    /\ tpc = "iter" /\ Len(events') = Len(events) + 1
    /\ LastEvent(events').type = "Line"
    /\ current # None
    /\ LastEvent(events').from # current[1]

EndsWithRepairedLine(b, ev) ==
    LET cmds == BuilderCommands(b)
    IN /\ Len(cmds) >= 2
       /\ cmds[Len(cmds) - 1] = MoveTo(ev.from)
       /\ cmds[Len(cmds)] = LineTo(ev.to)

\* C2 as stated: every Line whose from differs from the current point puts
\* MoveTo(from) right before its LineTo and makes the output one command
\* longer than the LineTo alone does, wherever it occurs in the stream.
C2_Original ==
    [][LineGapStep =>
        /\ EndsWithRepairedLine(upath_builder', LastEvent(events'))
        /\ Len(upath_builder'.verbs) = Len(upath_builder.verbs) + 2]_vars

\* C2 amended: every Line whose from differs from the current point leaves
\* MoveTo(from), LineTo(to) as the last two commands; the output grows by
\* those two commands, except when the last command before the Line is itself
\* a MoveTo (directly after a Begin, or after the repair of a non-closing
\* End): the builder then overwrites that MoveTo and the output grows by the
\* LineTo only.
C2_RepairReplacesMove ==
    [][LineGapStep =>
        /\ EndsWithRepairedLine(upath_builder', LastEvent(events'))
        /\ Len(upath_builder'.verbs) =
              Len(upath_builder.verbs) + (IF LastVerb(upath_builder) = "Move" THEN 1 ELSE 2)]_vars

\* A discontinuous Line directly after a Begin, and one directly after a closing End.
C2_Witness ==
    /\ Len(events) = 3
    /\ events[1].type = "Begin"
    /\ events[2].type = "End" /\ events[2].close
    /\ events[3].type = "Line" /\ events[3].from # events[2].last
    /\ BuilderCommands(upath_builder) =
         <<MoveTo(events[1].at), LineTo(events[2].first), ClosePath,
           MoveTo(events[3].from), LineTo(events[3].to)>>

(***************************************************************************)
(* Two consecutive subpaths.                                               *)
(***************************************************************************)
\* The index of the End that closes the first subpath of evs (0 if none).
FirstEnd(evs) ==
    IF \E i \in 1..Len(evs) : evs[i].type = "End"
    THEN CHOOSE i \in 1..Len(evs) :
            evs[i].type = "End" /\ \A j \in 1..(i - 1) : evs[j].type # "End"
    ELSE 0

Group1(evs) == SubSeq(evs, 1, FirstEnd(evs))
Group2(evs) == SubSeq(evs, FirstEnd(evs) + 1, Len(evs))

TwoGroups(evs) ==
    /\ FirstEnd(evs) > 0
    /\ IsGroup(Group1(evs))
    /\ IsGroup(Group2(evs))

CountMoveTo(cmds) == Cardinality({i \in 1..Len(cmds) : cmds[i].cmd = "MoveTo"})

\* C3 as stated: the output of two consecutive Begin...End groups is two
\* MoveTo-delimited runs, the run of the first group followed by the run of
\* the second, which starts with the MoveTo of its Begin.
C3_Original ==
    (tpc = "done" /\ TwoGroups(events) /\ path_data # None)
    => /\ CountMoveTo(OutCommands) = 2
       /\ OutCommands = GroupRun(Group1(events)) \o GroupRun(Group2(events))

\* C3 amended: the output of two consecutive Begin...End groups ends with the
\* run of the second group, which starts with the MoveTo of its Begin, so no
\* segment of the second group starts from a point of the first; before it
\* comes the run of the first group when that group emitted a command after
\* its MoveTo (a segment or a closing line), and nothing when the first group
\* is Begin, End(close = false): its lone MoveTo is overwritten by the second
\* Begin and the output is one run.
BareGroup(evs) == Len(evs) = 2 /\ ~evs[2].close

C3_SecondRunIndependent ==
    (tpc = "done" /\ TwoGroups(events) /\ path_data # None)
    => /\ OutCommands =
            (IF BareGroup(Group1(events)) THEN <<>> ELSE GroupRun(Group1(events)))
                \o GroupRun(Group2(events))
       /\ CountMoveTo(OutCommands) = (IF BareGroup(Group1(events)) THEN 1 ELSE 2)

C3_Witness ==
    /\ tpc = "done" /\ TwoGroups(events) /\ path_data # None
    /\ Len(Group1(events)) = 3 /\ Len(Group2(events)) = 3
    /\ Group1(events)[3].close
    /\ Group2(events)[1].at # Group1(events)[2].to
    /\ CountMoveTo(OutCommands) = 2

(***************************************************************************)
(* What the claims read off a write.                                       *)
(***************************************************************************)
\* write ran prepare (it did not stop at NoFonts).
Prepared == consumed /\ last_op.op = "write" /\ last_result.tag # "NoFonts"

\* The box prepare computed, as the caller sees it: the view box of the
\* tree, or the fields of the WrongBoundingBox error.
ObservedBounds ==
    IF tree # None
    THEN [min_x |-> tree[1].view_box[1], max_x |-> tree[1].view_box[3],
          min_y |-> tree[1].view_box[2], max_y |-> tree[1].view_box[4]]
    ELSE [min_x |-> last_result.bounds[1], max_x |-> last_result.bounds[2],
          min_y |-> last_result.bounds[3], max_y |-> last_result.bounds[4]]

\* The four corners of a Rect mapped through the full affine transform
\* (f32 arithmetic), stated apart from the code's Corners and MapPoint.
AffineImage(ts, x, y) ==
    <<F32(F32(F32(x * ts.sx) + F32(y * ts.kx)) + ts.tx),
      F32(F32(F32(x * ts.ky) + F32(y * ts.sy)) + ts.ty)>>

MappedCorners(ns, ts) ==
    UNION { { AffineImage(ts, x, y) : x \in {ns[i].bbox[1][1], ns[i].bbox[1][3]},
                                      y \in {ns[i].bbox[1][2], ns[i].bbox[1][4]} }
            : i \in {j \in 1..Len(ns) : ns[j].bbox # None} }

\* C4: the box prepare computes is the exact minimum and maximum, in x and
\* in y, over the four corners of every primitive that has bounds, each
\* mapped through the full global transform; with no such primitive it is
\* the seed (+inf, -inf, +inf, -inf).
C4_BoundsAreMinMax ==
    Prepared =>
        LET S == MappedCorners(nodes, unwrap_or_default(global_transform))
            bs == ObservedBounds
        IN IF S = {}
           THEN bs = [min_x |-> Inf, max_x |-> NegInf, min_y |-> Inf, max_y |-> NegInf]
           ELSE /\ \A p \in S : bs.min_x <= p[1] /\ p[1] <= bs.max_x
                                /\ bs.min_y <= p[2] /\ p[2] <= bs.max_y
                /\ \E p \in S : p[1] = bs.min_x
                /\ \E p \in S : p[1] = bs.max_x
                /\ \E p \in S : p[2] = bs.min_y
                /\ \E p \in S : p[2] = bs.max_y

\* Bounds (0,0)-(1,1) under the rotation by 90 degrees: the box (-1,0)-(0,1).
C4_Witness ==
    /\ Prepared
    /\ global_transform = Some(Rotate90)
    /\ Len(nodes) = 2
    /\ nodes[1].bbox = Some(UnitBox) /\ nodes[2].bbox = None
    /\ tree # None
    /\ tree[1].view_box = <<-1, 0, 0, 1>>

\* C5: write of a writer with no primitive and no global transform does
\* not fail on the box: it builds the default canvas of 256 by 256.
C5_EmptyWriterGetsDefaultCanvas ==
    (Prepared /\ nodes = <<>> /\ global_transform = None)
    => /\ last_result.tag # "WrongBoundingBox"
       /\ tree # None
       /\ tree[1].size = <<FALLBACK, FALLBACK>>

\* C6: write fails with WrongBoundingBox exactly when the computed box has a
\* non-finite bound or max_x <= min_x or max_y <= min_y, and the error
\* carries the four computed values, not the sizes after the fallback.
Degenerate(bs) ==
    \/ ~IsFinite(bs.min_x) \/ ~IsFinite(bs.max_x)
    \/ ~IsFinite(bs.min_y) \/ ~IsFinite(bs.max_y)
    \/ bs.max_x <= bs.min_x
    \/ bs.max_y <= bs.min_y

C6_WrongBoundingBoxIffDegenerate ==
    Prepared =>
        LET bs == ComputeBounds(nodes, global_transform)
        IN /\ (last_result.tag = "WrongBoundingBox") <=> Degenerate(bs)
           /\ last_result.tag = "WrongBoundingBox"
                => /\ tree = None
                   /\ last_result.bounds = <<bs.min_x, bs.max_x, bs.min_y, bs.max_y>>

\* A box of finite bounds and no width: the height is real, the width would
\* be the fallback, and the error reports min_x = max_x = 1.
C6_Witness ==
    /\ Prepared
    /\ Len(nodes) = 1 /\ nodes[1].bbox = Some(FlatBox)
    /\ global_transform = None
    /\ last_result = [tag |-> "WrongBoundingBox", bounds |-> <<1, 1, 1, 3>>]

HasText(ns) == \E i \in 1..Len(ns) : ns[i].kind = "Text"

\* C7: while no font source is attached (the writer is a LyonWriter<NoText>,
\* "no Text node has been added so far") the primitive list holds no text
\* primitive, and a tree with converted text comes from a writer with fonts
\* only.  push_node breaks the first half.
C7_NoTextBeforeFonts ==
    /\ fontdb.param = "NoText" => ~HasText(nodes)
    /\ (tree # None /\ tree[1].text_converted) => fontdb.param = "Option"

\* What the type parameter does enforce: a push_text call and a write with
\* text-to-path conversion happen only on a writer to which a font source
\* was attached.
TextOpsNeedFonts ==
    [][(\/ last_op'.op = "push_text"
        \/ (~consumed /\ consumed' /\ tree' # None /\ tree'[1].text_converted))
       => (fontdb.param = "Option" /\ fontdb.value # None)]_vars

IsTranslate(ts) == ts.sx = 1 /\ ts.sy = 1 /\ ts.kx = 0 /\ ts.ky = 0

Shifted(rect, tx, ty) == <<rect[1] + tx, rect[2] + ty, rect[3] + tx, rect[4] + ty>>

\* C8 as stated: whenever the primitives give a tree under no transform, they
\* give, under any pure translation (tx, ty), the tree whose view box is that
\* one shifted by (tx, ty) and whose size is the same.
C8_Original ==
    (Prepared /\ global_transform # None /\ IsTranslate(global_transform[1])
        /\ Prepare(nodes, None).tree # None)
    => /\ tree # None
       /\ tree[1].view_box = Shifted(Prepare(nodes, None).tree[1].view_box,
                                     global_transform[1].tx, global_transform[1].ty)
       /\ tree[1].size = Prepare(nodes, None).tree[1].size

\* The translation of every corner is exact in f32.
ExactShift(ns, ts) ==
    \A i \in 1..Len(ns) :
        ns[i].bbox # None =>
            /\ \A x \in {ns[i].bbox[1][1], ns[i].bbox[1][3]} : F32(x + ts.tx) = x + ts.tx
            /\ \A y \in {ns[i].bbox[1][2], ns[i].bbox[1][4]} : F32(y + ts.ty) = y + ts.ty

\* C8 amended: the same, for the pure translations whose sums x + tx and
\* y + ty with the corner coordinates are exact in f32.
C8_ExactTranslationShiftsViewBox ==
    (Prepared /\ global_transform # None /\ IsTranslate(global_transform[1])
        /\ ExactShift(nodes, global_transform[1])
        /\ Prepare(nodes, None).tree # None)
    => /\ tree # None
       /\ tree[1].view_box = Shifted(Prepare(nodes, None).tree[1].view_box,
                                     global_transform[1].tx, global_transform[1].ty)
       /\ tree[1].size = Prepare(nodes, None).tree[1].size

C8_Witness ==
    /\ Prepared
    /\ global_transform = Some(Translate(2, 3))
    /\ Len(nodes) = 1 /\ nodes[1].bbox = Some(UnitBox)
    /\ tree # None
    /\ tree[1].view_box = <<2, 3, 3, 4>>
    /\ tree[1].size = <<1, 1>>

\* C9: a push returns SvgFailure exactly when the path builder rejects the
\* translated commands (none, or a lone MoveTo); the primitive list and the
\* global transform are then unchanged; every other push returns Ok and
\* appends its one Path node, whatever was pushed before.
C9_PushFailsAlone ==
    [][last_op'.op = "push" =>
        LET b == TranslateAll([b |-> PathBuilder_new, current |-> None], last_op'.arg).b
        IN /\ (last_result'.tag = "SvgFailure") <=> (Len(b.verbs) <= 1)
           /\ last_result'.tag = "SvgFailure"
                => /\ nodes' = nodes
                   /\ global_transform' = global_transform
                   /\ pushed' = pushed
           /\ last_result'.tag # "SvgFailure"
                => /\ last_result' = Ok
                   /\ Len(nodes') = Len(nodes) + 1
                   /\ SubSeq(nodes', 1, Len(nodes)) = nodes
                   /\ nodes'[Len(nodes')].kind = "Path"
                   /\ nodes'[Len(nodes')].data =
                        Some([verbs |-> b.verbs, points |-> b.points])]_vars

\* A path of zero events pushed after a primitive: SvgFailure, list kept.
C9_Witness ==
    /\ last_op = Op("push", <<>>)
    /\ last_result.tag = "SvgFailure"
    /\ Len(nodes) = 2
    /\ pushed = nodes

\* C10 as stated: the tree of a successful write has one root whose only
\* child is a group carrying the global transform (the identity when none
\* was set), and the children of that group are exactly the primitives of
\* the successful pushes, one each, in call order.
C10_Original ==
    (consumed /\ tree # None)
    => LET root == tree[1].root
       IN /\ root.kind = "Group"
          /\ Len(root.children) = 1
          /\ root.children[1].kind = "Group"
          /\ root.children[1].transform =
                (IF global_transform = None THEN Identity ELSE global_transform[1])
          /\ root.children[1].children = pushed

\* children is ps in order, where each Text of ps is either missing or
\* stands as the group of its paths, and every other primitive is present:
\* an order-preserving map of the children into ps that covers every
\* primitive other than the Texts.
TextsConverted(children, ps) ==
    /\ Len(children) <= Len(ps)
    /\ \E f \in [1..Len(children) -> 1..Len(ps)] :
          /\ \A i, j \in 1..Len(children) : i < j => f[i] < f[j]
          /\ \A i \in 1..Len(children) :
                IF ps[f[i]].kind = "Text"
                THEN children[i].kind = "Group" /\ children[i] = TextGroup
                ELSE children[i].kind = ps[f[i]].kind /\ children[i] = ps[f[i]]
          /\ \A k \in 1..Len(ps) :
                ps[k].kind # "Text" => \E i \in 1..Len(children) : f[i] = k

\* C10: the tree of a successful write has one root whose only child is a
\* group carrying the global transform (the identity when none was set).
\* After a write without text conversion the children of that group are
\* exactly the primitives of the successful pushes, one each, in call order;
\* after a converting write they are those primitives in call order with
\* each Text primitive replaced in place by the group of its paths, or
\* removed when its conversion yields nothing, and no Text remains.
C10_TreeShape ==
    (consumed /\ tree # None)
    => LET root == tree[1].root
           children == root.children[1].children
       IN /\ root.kind = "Group"
          /\ Len(root.children) = 1
          /\ root.children[1].kind = "Group"
          /\ root.children[1].transform =
                (IF global_transform = None THEN Identity ELSE global_transform[1])
          /\ IF tree[1].text_converted
             THEN /\ TextsConverted(children, pushed)
                  /\ ~HasText(children)
             ELSE children = pushed

\* A converting write of Text, Image, Text: the first Text became a group,
\* the second was removed, the Image stays between them.
C10_Witness ==
    /\ consumed /\ tree # None /\ last_result = Ok
    /\ tree[1].text_converted
    /\ Len(pushed) = 3
    /\ pushed[1].kind = "Text" /\ pushed[2].kind = "Image" /\ pushed[3].kind = "Text"
    /\ global_transform = None
    /\ tree[1].root.children[1].transform = Identity
    /\ tree[1].root.children[1].children = <<TextGroup, pushed[2]>>

(***************************************************************************)
(* A step of the loop that consumes an End, and one that consumes a        *)
(* segment right after an End.                                             *)
(***************************************************************************)
EndStep ==
    /\ tpc = "iter" /\ Len(events') = Len(events) + 1
    /\ LastEvent(events').type = "End"

EndGap(ev) == current # None /\ ev.last # current[1]

SegmentAfterEndStep ==
    /\ tpc = "iter" /\ Len(events') = Len(events) + 1
    /\ events # <<>> /\ LastEvent(events).type = "End"
    /\ IsSegment(LastEvent(events'))

\* The commands of b without a trailing MoveTo.
DropTrailingMove(cmds) ==
    IF cmds # <<>> /\ cmds[Len(cmds)].cmd = "MoveTo"
    THEN SubSeq(cmds, 1, Len(cmds) - 1) ELSE cmds

\* C11: an End(last, first, close) whose last differs from the current point
\* first leaves the repair MoveTo(last); then a closing End leaves
\* LineTo(first), Close as the last two commands, and a non-closing End
\* leaves no command (inside a subpath these are the only commands added;
\* an End outside any subpath makes the builder inject a MoveTo before the
\* LineTo). In both cases the current point becomes last, not
\* first: a segment that follows is repaired exactly against last, so one
\* starting at a different point gets its MoveTo(from) even when from = first.
C11_EndEmitsAndTracksLast ==
    [][/\ EndStep =>
            LET ev == LastEvent(events')
                old == BuilderCommands(upath_builder)
                new == BuilderCommands(upath_builder')
                n == Len(new)
            IN /\ current' = Some(ev.last)
               /\ ev.close =>
                    /\ n >= 3
                    /\ new[n] = ClosePath
                    /\ new[n - 1] = LineTo(ev.first)
                    /\ EndGap(ev) =>
                         /\ new[n - 2] = MoveTo(ev.last)
                         /\ SubSeq(new, 1, n - 3) = DropTrailingMove(old)
                    /\ (~EndGap(ev) /\ ~upath_builder.move_to_required) =>
                         new = old \o <<LineTo(ev.first), ClosePath>>
               /\ ~ev.close =>
                    IF EndGap(ev)
                    THEN new = Append(DropTrailingMove(old), MoveTo(ev.last))
                    ELSE new = old
       /\ SegmentAfterEndStep =>
            LET ev == LastEvent(events')
                new == BuilderCommands(upath_builder')
            IN ev.from # LastEvent(events).last =>
                 /\ Len(new) >= 2
                 /\ new[Len(new) - 1] = MoveTo(ev.from)
                 /\ new[Len(new)] = SegmentCommand(ev)]_vars

\* Begin(A), a closing End whose first is not its last, then a Line that
\* starts at first: it is compared against last and gets its own MoveTo.
C11_Witness ==
    /\ Len(events) = 3
    /\ events[1].type = "Begin"
    /\ events[2].type = "End" /\ events[2].close
    /\ events[2].last = events[1].at /\ events[2].first # events[2].last
    /\ events[3].type = "Line" /\ events[3].from = events[2].first
    /\ BuilderCommands(upath_builder) =
         <<MoveTo(events[1].at), LineTo(events[2].first), ClosePath,
           MoveTo(events[3].from), LineTo(events[3].to)>>
    /\ current = Some(events[3].to)

(***************************************************************************)
(* Frame conditions of with_transform and of the font operations.          *)
(***************************************************************************)
FontOps == {"add_fonts", "add_fonts_dir", "add_fonts_source"}

MinOf(S) == CHOOSE v \in S : \A w \in S : v <= w
MaxOf(S) == CHOOSE v \in S : \A w \in S : v >= w

\* C12: with_transform(trans) makes trans the global transform and leaves
\* the primitive list and the font source as they are; add_fonts,
\* add_fonts_dir and add_fonts_source attach a font source and leave the
\* primitive list and the global transform as they are. The view box and
\* the size of a tree that write builds are the box of the corners of the
\* primitives in the list mapped through the transform set last (the
\* identity if none), and its spans: nothing else of the calls made before
\* enters them.
C12_FrameAndLastTransform ==
    [][/\ last_op'.op = "with_transform" =>
            /\ global_transform' = Some(last_op'.arg[1])
            /\ nodes' = nodes
            /\ pushed' = pushed
            /\ fontdb' = fontdb
       /\ last_op'.op \in FontOps =>
            /\ fontdb'.param = "Option" /\ fontdb'.value # None
            /\ nodes' = nodes
            /\ pushed' = pushed
            /\ global_transform' = global_transform
       /\ (~consumed /\ consumed' /\ tree' # None) =>
            LET S == MappedCorners(nodes, unwrap_or_default(global_transform))
                xs == {p[1] : p \in S}
                ys == {p[2] : p \in S}
            IN /\ S # {}
               /\ tree'[1].view_box = <<MinOf(xs), MinOf(ys), MaxOf(xs), MaxOf(ys)>>
               /\ tree'[1].size = <<F32(MaxOf(xs) - MinOf(xs)), F32(MaxOf(ys) - MinOf(ys))>>]_vars

\* with_transform called after two pushes and after add_fonts: both kept.
C12_Witness ==
    /\ last_op = Op("with_transform", <<Rotate90>>)
    /\ global_transform = Some(Rotate90)
    /\ Len(nodes) = 2 /\ pushed = nodes
    /\ fontdb.param = "Option" /\ fontdb.value # None

(***************************************************************************)
(* The size of a tree against its view box.                                *)
(***************************************************************************)
FallbackFires(bs) ==
    \/ ~(FSub(bs.max_x, bs.min_x) > 0)
    \/ ~(FSub(bs.max_y, bs.min_y) > 0)

\* C13: whenever prepare succeeds, the size of the tree is the span of its
\* view box, width = max_x - min_x and height = max_y - min_y; and whenever
\* the fallback of 256 fires for the width or the height, prepare fails with
\* WrongBoundingBox, so no tree carries a fallback value.
C13_SizeAgreesWithViewBox ==
    Prepared =>
        /\ tree # None =>
             /\ tree[1].size[1] = FSub(tree[1].view_box[3], tree[1].view_box[1])
             /\ tree[1].size[2] = FSub(tree[1].view_box[4], tree[1].view_box[2])
             /\ ~FallbackFires(ComputeBounds(nodes, global_transform))
        /\ FallbackFires(ComputeBounds(nodes, global_transform)) =>
             /\ tree = None
             /\ last_result.tag = "WrongBoundingBox"

\* (0,0)-(1,1) under x' = x - y, y' = x + y: the view box (-1,0)-(1,2), size 2 by 2.
C13_Witness ==
    /\ Prepared
    /\ global_transform = Some(RotateScale45)
    /\ Len(nodes) = 1 /\ nodes[1].bbox = Some(UnitBox)
    /\ tree # None
    /\ tree[1].view_box = <<-1, 0, 1, 2>>
    /\ tree[1].size = <<2, 2>>

(***************************************************************************)
(* The font source of a text-capable writer.                               *)
(***************************************************************************)
\* C14: in every sequence of public operations from new(), a writer of type
\* LyonWriter<Option<T>> that has not been written yet holds a font source,
\* so no write returns NoFonts.
C14_FontSourcePresent ==
    /\ (HasTextImpl /\ ~consumed) => fontdb.value # None
    /\ last_result.tag # "NoFonts"

\* A text-capable writer holding a text node was written: the source was
\* taken, the text converted and the file written.
C14_Witness ==
    /\ consumed /\ last_op.op = "write"
    /\ HasTextImpl /\ fontdb.value = None
    /\ \E i \in 1..Len(nodes) : nodes[i].kind = "Text"
    /\ last_result = Ok
    /\ tree # None /\ tree[1].text_converted

====
